---- MODULE Spec2Model ----
(***************************************************************************)
(* Model of the E1.31 receiver of e131_blinkt: the priority tracker        *)
(* (e131_receiver::priority) and the socket-owning universe                *)
(* (e131_receiver::universe, src/src/e131_receiver.cpp) driven by an       *)
(* sd-event loop, together with the datagrams and the time that reach it.  *)
(* Beside it: the tracker under direct calls, the pull-style universe of   *)
(* src/src/e131_receiver.hpp, and universe_handler of e131_blinkt.cpp.     *)
(***************************************************************************)
EXTENDS Integers, Sequences, FiniteSets, TLC

VARIABLES
    minimum_priority,    \* priority of the tracker's sentinel entry
    max_sources,         \* universe::max_sources
    ignore_preview_flag, \* universe::ignore_preview_flag
    traffic,             \* kind of traffic that reaches the socket
    prio_cnt,            \* priority::prio_cnt, the map priority -> count
    srcs,                \* universe::srcs, the map cid -> source
    evs_cid,             \* universe::evs_cid, the map timer handle -> cid
    timers,              \* time event sources alive in the loop: handle -> ms left
    channel_data,        \* universe::channel_data
    queued_events,       \* universe::queued_events
    ev_state,            \* state of the universe's sd_event loop
    sock,                \* datagrams left in the E1.31 socket by the last read
    pc,                  \* "idle", or "updating" while update() runs
    returned,            \* what the last update() call gave to its caller
    term_removed,        \* cids whose last removal came from a termination packet
    left,                \* why the last pass of socket_handler left its loop
    ret,                 \* value returned by the last direct tracker call
    pending_removal,     \* universe::pending_removal of e131_receiver.hpp
    limit_reached_flag,  \* static bool limit_reached of universe_handler
    journal,             \* what universe_handler logged for the last batch
    update_status        \* whether it sent the status notification for it

vars == <<minimum_priority, max_sources, ignore_preview_flag, traffic,
          prio_cnt, srcs,
          evs_cid, timers, channel_data, queued_events, ev_state, sock, pc,
          returned, term_removed, left, ret, pending_removal,
          limit_reached_flag, journal, update_status>>

----------------------------------------------------------------------------
(* Bounds of the model *)

NumChannels == 2      \* channels of the buffer (512 in the program)
MaxQueue == 2         \* datagrams that can wait in the socket
MaxVal == 2           \* channel values carried by packets are 1..MaxVal
MaxCount == 2         \* cap of a count under direct tracker calls
MaxSurplus == 1       \* cap of the tracker's counts in excess of the sources
MaxEvents == 1        \* events after which update() reads no more datagrams

(* Program constants *)

network_data_loss_timeout == 2500
e131_data_vector == 4
default_priority == 100
uni == 1

\* milliseconds by which one Tick advances the clock
TickMs == network_data_loss_timeout

Cids == {"A", "B"}
Priorities == {50, 100, 150}
Values == 1..MaxVal
Handles == 1..Cardinality(Cids)
NULL == 0

\* values an undefined read of a priority_type can produce
Uint8Samples == Priorities \cup {0, 255}

Max(S) == CHOOSE m \in S : \A x \in S : x <= m
Min(S) == CHOOSE m \in S : \A x \in S : m <= x

----------------------------------------------------------------------------
(* priority: the priority tracker *)

\* priority::priority(): the map holds the sentinel only
priority_init(baseline) == (baseline :> 1)

\* priority::priority() of e131_receiver.hpp: prio_cnt[default_priority] = 1
priority_default == priority_init(default_priority)

\* operator priority_type(): prio_cnt.rbegin()->first
current_max(cnt) == Max(DOMAIN cnt)

\* ++prio_cnt[p]
add(cnt, p) ==
    IF p \in DOMAIN cnt THEN [cnt EXCEPT ![p] = @ + 1] ELSE cnt @@ (p :> 1)

\* a remove that erases an entry only when its count has fallen below zero
remove_keeps_zero(cnt, p) ==
    LET c == (IF p \in DOMAIN cnt THEN cnt[p] ELSE 0) - 1
    IN  IF c < 0 THEN [q \in (DOMAIN cnt) \ {p} |-> cnt[q]]
        ELSE [q \in (DOMAIN cnt) \cup {p} |-> IF q = p THEN c ELSE cnt[q]]

\* --prio_cnt[p]; if (prio_cnt[p] <= 0) prio_cnt.erase(p);
remove(cnt, p) ==
    LET c == (IF p \in DOMAIN cnt THEN cnt[p] ELSE 0) - 1
    IN  IF c <= 0 THEN [q \in (DOMAIN cnt) \ {p} |-> cnt[q]]
        ELSE [cnt EXCEPT ![p] = c]

\* a source count that takes the sentinel for a source
sources_with_sentinel(cnt, baseline) == cnt[current_max(cnt)]

\* priority::sources()
sources(cnt, baseline) ==
    IF current_max(cnt) = baseline THEN cnt[current_max(cnt)] - 1
    ELSE cnt[current_max(cnt)]

RECURSIVE SumCounts(_, _)
SumCounts(cnt, S) ==
    IF S = {} THEN 0
    ELSE LET p == Min(S) IN cnt[p] + SumCounts(cnt, S \ {p})

\* priority::total_sources()
total_sources(cnt) == SumCounts(cnt, DOMAIN cnt) - 1

\* the values `return *this` can give: the greatest key, or the result of
\* dereferencing rbegin() of an empty map
returned_max(cnt) ==
    IF DOMAIN cnt = {} THEN Uint8Samples ELSE {current_max(cnt)}

----------------------------------------------------------------------------
(* Packets *)

\* e131_packet_t as received: the fields the universe reads.  prop_val[0] is
\* start_code and prop_val[i] = fill for i >= 1.
Packet(c, p, s, t, n, sc, f) ==
    [validate_ok |-> TRUE, vector |-> e131_data_vector, universe |-> uni,
     preview |-> FALSE, terminated |-> t, cid |-> c, priority |-> p,
     seq_number |-> s, prop_val_cnt |-> n, start_code |-> sc, fill |-> f]

Whole == NumChannels + 1   \* property values of a whole frame

\* packets of sources that compete, each source sending its own level and
\* each packet carrying its priority as its sequence number, so that a packet
\* at another priority is never stale; A sends at every priority, B at the
\* least and the greatest
Level(c) == IF c = "A" THEN MaxVal ELSE 1
ArbitrationPackets ==
    { Packet("A", p, p, FALSE, Whole, 0, Level("A")) : p \in Priorities }
    \cup { Packet("B", p, p, FALSE, Whole, 0, Level("B")) :
              p \in {Min(Priorities), Max(Priorities)} }

\* packets of sources that meet the source limit
LimitPackets ==
    { Packet(c, p, s, t, Whole, 0, IF t THEN MaxVal ELSE 1) :
        c \in Cids, p \in {100, 150}, s \in {0, 100}, t \in BOOLEAN }

\* packets with sequence numbers around the wrap and the edge of the
\* discard window
SeqValues == {0, 19, 20, 255}
SequencePackets ==
    { Packet(c, default_priority, s, t, Whole, 0, 1) :
        c \in Cids, s \in SeqValues, t \in BOOLEAN }
    \cup { Packet("A", Max(Priorities), s, FALSE, Whole, 0, 1) :
             s \in SeqValues }

\* packets with no property values, a short frame or another start code
PayloadPackets ==
    { Packet("A", default_priority, s, FALSE, n, sc, f) :
        s \in {0, 100}, n \in 0..Whole, sc \in {0, 221}, f \in Values }
    \cup { Packet("B", default_priority, 0, FALSE, Whole, 0, MaxVal) }

\* packets that fail one condition of valid_packet, and one that passes
AdmissionPackets ==
    LET g == Packet("A", 150, 100, FALSE, Whole, 0, 1)
    IN  { g, [g EXCEPT !.validate_ok = FALSE], [g EXCEPT !.vector = 8],
          [g EXCEPT !.universe = uni + 1], [g EXCEPT !.preview = TRUE],
          [g EXCEPT !.seq_number = 0, !.fill = MaxVal] }

\* packets of which several arrive between two reads of the socket
BurstPackets ==
    { Packet("A", default_priority, s, FALSE, Whole, 0, 1) : s \in {0, 100} }
    \cup { Packet("A", default_priority, 100, TRUE, Whole, 0, 1),
           Packet("B", default_priority, 0, FALSE, Whole, 0, 1),
           [Packet("A", default_priority, 100, FALSE, Whole, 0, 1) EXCEPT
               !.universe = uni + 1] }

\* the packets of each kind of traffic
PacketsOf(kind) ==
    CASE kind = "arbitration" -> ArbitrationPackets
      [] kind = "limit" -> LimitPackets
      [] kind = "sequence" -> SequencePackets
      [] kind = "payload" -> PayloadPackets
      [] kind = "admission" -> AdmissionPackets
      [] kind = "burst" -> BurstPackets
      [] kind = "fault" -> BurstPackets
      [] OTHER -> {}

\* the datagrams that can have arrived when the socket is read: one, or up to
\* MaxQueue in a burst
Arrivals(kind) ==
    UNION { [1..n -> PacketsOf(kind)] :
              n \in 1..(IF kind = "burst" THEN MaxQueue ELSE 1) }

\* e131_pkt_discard of libe131: the signed 8-bit difference to the last
\* sequence number lies in (-20, 0]
e131_pkt_discard(pkt, last_seq) ==
    LET d == (pkt.seq_number - last_seq) % 256
        diff == IF d >= 128 THEN d - 256 ELSE d
    IN  diff > -20 /\ diff <= 0

\* an admission test that takes the packets of any universe
valid_packet_any_universe(pkt, ignore_preview) ==
    /\ pkt.validate_ok
    /\ pkt.vector = e131_data_vector
    /\ (~pkt.preview \/ ignore_preview)

\* universe::valid_packet
valid_packet(pkt, ignore_preview) ==
    /\ pkt.validate_ok
    /\ pkt.vector = e131_data_vector
    /\ pkt.universe = uni
    /\ (~pkt.preview \/ ignore_preview)

----------------------------------------------------------------------------
(* universe: the operations on the universe's members, as a record u *)

U == [prio_cnt |-> prio_cnt, srcs |-> srcs, evs_cid |-> evs_cid,
      timers |-> timers, channel_data |-> channel_data,
      queued_events |-> queued_events, term_removed |-> term_removed]

Event(t, c) == [event |-> t, id |-> c]

Restrict(f, S) == [x \in S |-> f[x]]

\* a value-initialized source, as srcs[uuid] creates it for a missing key
default_source ==
    [uuid |-> "", prio |-> 0, sequence_data |-> 0,
     sequence_synchronization |-> 0, timer_evs |-> NULL]

\* reactor calls that can fail while a datagram is handled
NoFail == [at |-> 0, kind |-> "none"]
Failures(kind, q) ==
    IF kind = "fault"
    THEN {NoFail} \cup [at : 1..Len(q), kind : {"add_time", "set_time"}]
    ELSE {NoFail}

\* values the read through a dangling source reference can give
DanglingReads(q) ==
    IF \E i \in 1..Len(q) : q[i].terminated THEN Uint8Samples ELSE {0}

\* an add_source that registers the source without telling the caller
add_source_silent(u, uuid, pkt, failing) ==
    IF failing = "add_time" THEN [u |-> u, st |-> "throw"]
    ELSE
        LET evs == Min(Handles \ DOMAIN u.timers)
            src == [uuid |-> uuid, prio |-> pkt.priority,
                    sequence_data |-> pkt.seq_number,
                    sequence_synchronization |-> 0, timer_evs |-> evs]
        IN  [u |-> [u EXCEPT
                     !.timers = @ @@ (evs :> network_data_loss_timeout),
                     !.prio_cnt = add(@, pkt.priority),
                     !.srcs = @ @@ (uuid :> src),
                     !.evs_cid = @ @@ (evs :> uuid),
                     !.term_removed = @ \ {uuid}],
             st |-> "next"]

\* an add_source that counts the priority before it arms the timer
add_source_counted_first(u, uuid, pkt, failing) ==
    IF failing = "add_time"
    THEN [u |-> [u EXCEPT !.prio_cnt = add(@, pkt.priority)], st |-> "throw"]
    ELSE [add_source_silent(u, uuid, pkt, "none") EXCEPT
            !.u.queued_events = Append(@, Event("SOURCE_ADDED", uuid))]

\* universe::add_source past the limit check; st is "throw" when the timer
\* cannot be armed
add_source(u, uuid, pkt, failing) ==
    IF failing = "add_time" THEN [u |-> u, st |-> "throw"]
    ELSE
        LET evs == Min(Handles \ DOMAIN u.timers)
            src == [uuid |-> uuid, prio |-> pkt.priority,
                    sequence_data |-> pkt.seq_number,
                    sequence_synchronization |-> 0, timer_evs |-> evs]
        IN  [u |-> [u EXCEPT
                     !.timers = @ @@ (evs :> network_data_loss_timeout),
                     !.prio_cnt = add(@, pkt.priority),
                     !.srcs = @ @@ (uuid :> src),
                     !.evs_cid = @ @@ (evs :> uuid),
                     !.term_removed = @ \ {uuid},
                     !.queued_events = Append(@, Event("SOURCE_ADDED", uuid))],
             st |-> "next"]

\* a remove_source that blanks the channel buffer with the source it removes
remove_source_blanking(u, src) ==
    [u EXCEPT
      !.prio_cnt = remove(@, src.prio),
      !.evs_cid = Restrict(@, (DOMAIN @) \ {src.timer_evs}),
      !.timers = Restrict(@, (DOMAIN @) \ {src.timer_evs}),
      !.srcs = Restrict(@, (DOMAIN @) \ {src.uuid}),
      !.channel_data = [i \in 1..NumChannels |-> 0],
      !.queued_events = Append(@, Event("SOURCE_REMOVED", src.uuid))]

\* universe::remove_source; erasing the record releases its timer
remove_source(u, src) ==
    [u EXCEPT
      !.prio_cnt = remove(@, src.prio),
      !.evs_cid = Restrict(@, (DOMAIN @) \ {src.timer_evs}),
      !.timers = Restrict(@, (DOMAIN @) \ {src.timer_evs}),
      !.srcs = Restrict(@, (DOMAIN @) \ {src.uuid}),
      !.queued_events = Append(@, Event("SOURCE_REMOVED", src.uuid))]

\* a copy that keeps the greater of the stored and the received value
copy_payload_greatest(data, pkt) ==
    [i \in 1..NumChannels |->
        IF i <= pkt.prop_val_cnt - 1 THEN Max({data[i], pkt.fill})
        ELSE data[i]]

\* a copy that fills the whole buffer whatever the packet's count
copy_payload_whole(data, pkt) == [i \in 1..NumChannels |-> pkt.fill]

\* std::copy(prop_val + 1, prop_val + prop_val_cnt, channel_data.data())
copy_payload(data, pkt) ==
    [i \in 1..NumChannels |->
        IF i <= pkt.prop_val_cnt - 1 THEN pkt.fill ELSE data[i]]

\* a limit test that lets one source too many in
limit_reached_late(table, maxsrc) == Cardinality(DOMAIN table) > maxsrc

\* the test of add_source: srcs.size() == max_sources
limit_reached(table, maxsrc) == Cardinality(DOMAIN table) = maxsrc

\* an update rule that turns ties away
update_rule_strict(pkt, cnt) ==
    /\ pkt.priority > current_max(cnt)
    /\ pkt.prop_val_cnt # 0
    /\ pkt.start_code = 0

\* an update rule that does not look at the priority
update_rule_any_priority(pkt, cnt) ==
    /\ pkt.prop_val_cnt # 0
    /\ pkt.start_code = 0

\* the test that guards the copy into channel_data
update_rule(pkt, cnt) ==
    /\ pkt.priority >= current_max(cnt)
    /\ pkt.prop_val_cnt # 0
    /\ pkt.start_code = 0

\* a discard test that compares the sequence numbers without the wrap
stale_break_unsigned(pkt, src) == pkt.seq_number <= src.sequence_data

\* a discard test that lets a termination through
stale_break_unless_terminated(pkt, src) ==
    e131_pkt_discard(pkt, src.sequence_data) /\ ~pkt.terminated

\* the test of a registered source's packet: if (e131_pkt_discard(&pkt,
\* src.sequence_data)) break;
stale_break(pkt, src) == e131_pkt_discard(pkt, src.sequence_data)

\* a handler without the branch for a termination from an unregistered source
terminated_break_missing(pkt, table) == FALSE

\* the branch of an unregistered source's packet: else if (terminated) break;
terminated_break(pkt, table) ==
    pkt.cid \notin DOMAIN table /\ pkt.terminated

\* a handler that stores the sequence number of a winning packet only
store_sequence_of_winner(u, uuid, pkt) ==
    IF update_rule(pkt, u.prio_cnt)
    THEN [u EXCEPT !.srcs[uuid].sequence_data = pkt.seq_number]
    ELSE u

\* src.sequence_data = pkt.frame.seq_number
store_sequence(u, uuid, pkt) ==
    [u EXCEPT !.srcs[uuid].sequence_data = pkt.seq_number]

\* a reset that a null timer handle does not stop
timer_reset_ok_null(src, failing) == failing # "set_time"

\* a reset that does not look at what sd_event_source_set_time returns
timer_reset_ok_unchecked(src, failing) == TRUE

\* universe::source_timer_reset: FALSE when sd_event_now or
\* sd_event_source_set_time fails, as the latter does for a null handle
timer_reset_ok(src, failing) == failing # "set_time" /\ src.timer_evs # NULL

\* a reset that leaves the deadline where it was
source_timer_reset_skipped(u, src) == u

\* universe::source_timer_reset: the deadline moves to now + 2500 ms
source_timer_reset(u, src) ==
    [u EXCEPT !.timers[src.timer_evs] = network_data_loss_timeout]

\* One pass of the do-while body of universe::socket_handler for the datagram
\* pkt.  st is "next" (loop again), "break", or "throw" (an exception leaves
\* the loop).  dangling is the value read through src after remove_source
\* has erased the record it refers to.
socket_iteration(u, pkt, maxsrc, ignore_preview, failing, dangling) ==
    LET uuid == pkt.cid
        terminated == pkt.terminated
        registered_source == uuid \in DOMAIN u.srcs
    IN
    IF ~valid_packet(pkt, ignore_preview) THEN [u |-> u, st |-> "break"]
    ELSE IF registered_source /\ stale_break(pkt, u.srcs[uuid])
         THEN [u |-> u, st |-> "break"]
    ELSE IF terminated_break(pkt, u.srcs) THEN [u |-> u, st |-> "break"]
    ELSE IF ~registered_source /\ limit_reached(u.srcs, maxsrc)
         THEN [u |-> u, st |-> "throw"]   \* throw source_limit_reached_event
    ELSE
    LET a == IF registered_source
             THEN LET u1 == IF terminated
                            THEN [remove_source(u, u.srcs[uuid]) EXCEPT
                                    !.term_removed = @ \cup {uuid}]
                            ELSE u
                      src_prio == IF terminated THEN dangling
                                  ELSE u.srcs[uuid].prio
                      cnt2 == add(remove(u1.prio_cnt, src_prio), pkt.priority)
                  IN  IF pkt.priority # src_prio
                      THEN [u |-> [u1 EXCEPT
                                    !.prio_cnt = cnt2,
                                    !.srcs = IF terminated THEN @
                                             ELSE [@ EXCEPT ![uuid].prio =
                                                       current_max(cnt2)]],
                            st |-> "next"]
                      ELSE [u |-> u1, st |-> "next"]
             ELSE add_source(u, uuid, pkt, failing)
    IN
    IF a.st = "throw" THEN a
    ELSE
    \* source& src { srcs[uuid] } inserts a default record for a missing key
    LET u3 == IF uuid \in DOMAIN a.u.srcs THEN a.u
              ELSE [a.u EXCEPT !.srcs = @ @@ (uuid :> default_source)]
        src == u3.srcs[uuid]
    IN
    IF ~timer_reset_ok(src, failing) THEN [u |-> u3, st |-> "throw"]
    ELSE
    LET u4 == source_timer_reset(u3, src)
        u5 == IF update_rule(pkt, u4.prio_cnt)
              THEN [u4 EXCEPT
                     !.channel_data = copy_payload(@, pkt),
                     !.queued_events =
                         Append(@, Event("CHANNEL_DATA_UPDATED", uuid))]
              ELSE u4
    IN  [u |-> store_sequence(u5, uuid, pkt), st |-> "next"]

\* the break at which a pass that handles pkt in u leaves the loop
break_reason(u, pkt, ignore_preview) ==
    IF ~valid_packet(pkt, ignore_preview) THEN "invalid"
    ELSE IF pkt.cid \in DOMAIN u.srcs THEN "stale"
    ELSE "absent_terminated"

\* universe::socket_handler: the loop over the waiting datagrams q; n counts
\* the datagrams read.  ok is the handler's return value, why the way the
\* loop was left.
RECURSIVE socket_loop(_, _, _, _, _, _, _)
socket_loop(u, q, n, maxsrc, ignore_preview, fail, dangling) ==
    IF q = <<>> THEN [u |-> u, sock |-> q, ok |-> TRUE, why |-> "drained"]
    ELSE
    LET r == socket_iteration(u, Head(q), maxsrc, ignore_preview,
                              IF fail.at = n THEN fail.kind ELSE "none",
                              dangling)
    IN  IF r.st = "throw"
        THEN [u |-> r.u, sock |-> Tail(q), ok |-> FALSE, why |-> "throw"]
        ELSE IF r.st = "break"
        THEN [u |-> r.u, sock |-> Tail(q), ok |-> TRUE,
              why |-> break_reason(u, Head(q), ignore_preview)]
        ELSE socket_loop(r.u, Tail(q), n + 1, maxsrc, ignore_preview, fail,
                         dangling)

socket_handler(u, q, maxsrc, ignore_preview, fail, dangling) ==
    socket_loop(u, q, 1, maxsrc, ignore_preview, fail, dangling)

\* a time event source is dispatched once the time given to sd_event_add_time
\* or sd_event_source_set_time has come: ms is what is left until then
elapsed(ms) == ms <= 0

\* universe::timer_callback for the time event source s
timer_callback(u, s) == remove_source(u, u.srcs[u.evs_cid[s]])

----------------------------------------------------------------------------
(* The universe and its surroundings as a state machine *)

\* the universes constructed and the traffic each one meets: the sentinel's
\* priority, the source limit, the preview setting, the kind of traffic
Env(b, m, i, k) ==
    [minimum_priority |-> b, max_sources |-> m, ignore_preview_flag |-> i,
     traffic |-> k]

Environments ==
    { Env(b, 2, FALSE, "arbitration") :
        b \in {Min(Priorities), default_priority} }
    \cup { Env(default_priority, m, FALSE, "limit") : m \in 0..1 }
    \cup { Env(default_priority, 2, FALSE, k) :
        k \in {"sequence", "payload", "burst", "fault"} }
    \cup { Env(default_priority, 1, FALSE, "fault") }
    \cup { Env(default_priority, 1, i, "admission") : i \in BOOLEAN }

NoReturn == [status |-> "none", events |-> <<>>]

\* nothing is queued for removal, nothing has been logged
BesideInit ==
    /\ pending_removal = << >>
    /\ limit_reached_flag = FALSE
    /\ journal = << >>
    /\ update_status = FALSE

\* universe::universe for each configuration
Init ==
    /\ \E e \in Environments :
         /\ minimum_priority = e.minimum_priority
         /\ max_sources = e.max_sources
         /\ ignore_preview_flag = e.ignore_preview_flag
         /\ traffic = e.traffic
    /\ prio_cnt = priority_init(minimum_priority)
    /\ srcs = << >>
    /\ evs_cid = << >>
    /\ timers = << >>
    /\ channel_data = [i \in 1..NumChannels |-> 0]
    /\ queued_events = << >>
    /\ ev_state = "running"
    /\ sock = << >>
    /\ pc = "idle"
    /\ returned = NoReturn
    /\ term_removed = {}
    /\ left = "none"
    /\ ret = minimum_priority
    /\ BesideInit

config == <<minimum_priority, max_sources, ignore_preview_flag, traffic>>

\* what belongs to the pull-style universe and to the consumer alone
beside == <<pending_removal, limit_reached_flag, journal, update_status>>
members == <<prio_cnt, srcs, evs_cid, timers, channel_data, queued_events,
             term_removed>>

SetMembers(u) ==
    /\ prio_cnt' = u.prio_cnt
    /\ srcs' = u.srcs
    /\ evs_cid' = u.evs_cid
    /\ timers' = u.timers
    /\ channel_data' = u.channel_data
    /\ queued_events' = u.queued_events
    /\ term_removed' = u.term_removed

\* the clock advances by TickMs while the consumer waits for the next event
Tick ==
    /\ pc = "idle"
    /\ \E h \in DOMAIN timers : timers[h] > 0
    /\ timers' = [h \in DOMAIN timers |->
                    IF timers[h] > TickMs THEN timers[h] - TickMs ELSE 0]
    /\ UNCHANGED <<config, beside, prio_cnt, srcs, evs_cid, channel_data,
                   queued_events, term_removed, ev_state, sock, pc, returned,
                   left, ret>>

\* an update() that does not empty the queue of the call before
UpdateBegin_keep ==
    /\ pc = "idle"
    /\ pc' = "updating"
    /\ returned' = NoReturn
    /\ left' = "none"
    /\ UNCHANGED <<config, beside, members, ev_state, sock, ret>>

\* an update() that blanks the channel buffer before it polls
UpdateBegin_blank ==
    /\ pc = "idle"
    /\ pc' = "updating"
    /\ queued_events' = << >>
    /\ channel_data' = [i \in 1..NumChannels |-> 0]
    /\ returned' = NoReturn
    /\ left' = "none"
    /\ UNCHANGED <<config, beside, prio_cnt, srcs, evs_cid, timers, term_removed,
                   ev_state, sock, ret>>

\* universe::update: queued_events.clear()
UpdateBegin ==
    /\ pc = "idle"
    /\ pc' = "updating"
    /\ queued_events' = << >>
    /\ returned' = NoReturn
    /\ left' = "none"
    /\ UNCHANGED <<config, beside, prio_cnt, srcs, evs_cid, timers, channel_data,
                   term_removed, ev_state, sock, ret>>

\* sd_event_run dispatches the socket's I/O source, universe::socket_callback,
\* when the datagrams q have arrived behind those left in the socket
DispatchSocket(q) ==
    /\ pc = "updating"
    /\ ev_state = "running"
    /\ Len(sock) + Len(q) \in 1..MaxQueue
    /\ Len(queued_events) < MaxEvents
    /\ \E fail \in Failures(traffic, sock \o q),
            dangling \in DanglingReads(sock \o q) :
         LET r == socket_handler(U, sock \o q, max_sources,
                                 ignore_preview_flag, fail, dangling)
         IN  /\ SumCounts(r.u.prio_cnt, DOMAIN r.u.prio_cnt)
                    <= Cardinality(DOMAIN r.u.srcs) + 1 + MaxSurplus
             /\ SetMembers(r.u)
             /\ sock' = r.sock
             /\ left' = r.why
             /\ ev_state' = IF r.ok THEN "running" ELSE "exit_requested"
    /\ UNCHANGED <<config, beside, pc, returned, ret>>

\* sd_event_run dispatches an elapsed time event source
DispatchTimer(s) ==
    /\ pc = "updating"
    /\ ev_state = "running"
    /\ s \in DOMAIN timers
    /\ elapsed(timers[s])
    /\ SetMembers(timer_callback(U, s))
    /\ UNCHANGED <<config, beside, ev_state, sock, pc, returned, left, ret>>

\* sd_event_run after sd_event_exit: the loop finishes
DispatchExit ==
    /\ pc = "updating"
    /\ ev_state = "exit_requested"
    /\ ev_state' = "finished"
    /\ UNCHANGED <<config, beside, members, sock, pc, returned, left, ret>>

\* an update() that returns while datagrams wait in the socket
UpdateReturn_early ==
    /\ pc = "updating"
    /\ ev_state = "running"
    /\ \A h \in DOMAIN timers : ~elapsed(timers[h])
    /\ returned' = [status |-> "ok", events |-> queued_events]
    /\ pc' = "idle"
    /\ left' = "none"
    /\ UNCHANGED <<config, beside, members, ev_state, sock, ret>>

\* sd_event_run returns 0: update() returns queued_events
UpdateReturn ==
    /\ pc = "updating"
    /\ ev_state = "running"
    /\ sock = << >>
    /\ \A h \in DOMAIN timers : ~elapsed(timers[h])
    /\ returned' = [status |-> "ok", events |-> queued_events]
    /\ pc' = "idle"
    /\ left' = "none"
    /\ UNCHANGED <<config, beside, members, ev_state, sock, ret>>

\* sd_event_run returns -ESTALE on a finished loop: update() throws
UpdateThrow ==
    /\ pc = "updating"
    /\ ev_state = "finished"
    /\ returned' = [status |-> "fault", events |-> << >>]
    /\ pc' = "idle"
    /\ left' = "none"
    /\ UNCHANGED <<config, beside, members, ev_state, sock, ret>>

Next ==
    \/ Tick
    \/ UpdateBegin
    \/ \E q \in Arrivals(traffic) \cup {<< >>} : DispatchSocket(q)
    \/ \E s \in Handles : DispatchTimer(s)
    \/ DispatchExit
    \/ UpdateReturn
    \/ UpdateThrow

Spec == Init /\ [][Next]_vars

----------------------------------------------------------------------------
(* The priority tracker on its own, under direct calls of add and remove *)

TrackerPriorities == Priorities \cup {0}

InitPrio ==
    /\ minimum_priority \in {Min(Priorities), default_priority}
    /\ max_sources = 0
    /\ ignore_preview_flag = FALSE
    /\ traffic = "none"
    /\ prio_cnt = priority_init(minimum_priority)
    /\ srcs = << >>
    /\ evs_cid = << >>
    /\ timers = << >>
    /\ channel_data = [i \in 1..NumChannels |-> 0]
    /\ queued_events = << >>
    /\ ev_state = "running"
    /\ sock = << >>
    /\ pc = "idle"
    /\ returned = NoReturn
    /\ term_removed = {}
    /\ left = "none"
    /\ ret = current_max(prio_cnt)
    /\ BesideInit

\* priority::add(p) and the value it returns
PrioAdd(p) ==
    /\ (IF p \in DOMAIN prio_cnt THEN prio_cnt[p] ELSE 0) < MaxCount
    /\ prio_cnt' = add(prio_cnt, p)
    /\ ret' \in returned_max(prio_cnt')
    /\ UNCHANGED <<config, beside, srcs, evs_cid, timers, channel_data, queued_events,
                   term_removed, ev_state, sock, pc, returned, left>>

\* priority::remove(p) and the value it returns
PrioRemove(p) ==
    /\ prio_cnt' = remove(prio_cnt, p)
    /\ ret' \in returned_max(prio_cnt')
    /\ UNCHANGED <<config, beside, srcs, evs_cid, timers, channel_data, queued_events,
                   term_removed, ev_state, sock, pc, returned, left>>

NextPrio ==
    \/ \E p \in TrackerPriorities : PrioAdd(p)
    \/ \E p \in TrackerPriorities : PrioRemove(p)

SpecPrio == InitPrio /\ [][NextPrio]_vars

----------------------------------------------------------------------------
(* The pull-style universe of e131_receiver.hpp: the caller hands every     *)
(* packet to update(pkt), the timer class reports expiries to               *)
(* timer_expired.  srcs, prio_cnt, channel_data, timers and evs_cid stand   *)
(* for its members srcs, prio, channel_data and tmrs.                       *)

\* packets handed to update(pkt); the last one fails e131_pkt_validate
PullPackets ==
    { Packet(c, p, s, t, Whole, 0, Level(c)) :
        c \in Cids, p \in {default_priority, Max(Priorities)},
        s \in {0, 100}, t \in BOOLEAN }
    \cup { [Packet("A", default_priority, 100, FALSE, Whole, 0, 1)
              EXCEPT !.validate_ok = FALSE] }

\* a one-shot time event source that has been dispatched
Off == -1

PU == [prio_cnt |-> prio_cnt, srcs |-> srcs, evs_cid |-> evs_cid,
       timers |-> timers, channel_data |-> channel_data,
       pending_removal |-> pending_removal]

\* no_event: type NONE and an empty cid
no_event == Event("NONE", "")

\* the handle tmrs.timer_sources keeps for uuid
timer_source(u, uuid) ==
    CHOOSE h \in DOMAIN u.evs_cid : u.evs_cid[h] = uuid

\* systemd_event_timer::add: the time handed to sd_event_add_time is millis
\* counted from the clock's origin, which has passed
tmrs_add(u, uuid) ==
    LET evs == Min(Handles \ DOMAIN u.timers)
    IN  [u EXCEPT !.timers = @ @@ (evs :> 0),
                  !.evs_cid = @ @@ (evs :> uuid)]

\* systemd_event_timer::modify: now + millis; a dispatched one-shot source
\* stays off
tmrs_modify(u, uuid, millis) ==
    LET h == timer_source(u, uuid)
    IN  IF u.timers[h] = Off THEN u ELSE [u EXCEPT !.timers[h] = millis]

\* systemd_event_timer::remove
tmrs_remove(u, uuid) ==
    LET h == timer_source(u, uuid)
    IN  [u EXCEPT !.evs_cid = Restrict(@, (DOMAIN @) \ {h}),
                  !.timers = Restrict(@, (DOMAIN @) \ {h})]

\* a remove_source that leaves the source's timer in the loop
pull_remove_source_timer_left(u, id) ==
    [u EXCEPT !.prio_cnt = remove(@, u.srcs[id].prio),
              !.srcs = Restrict(@, (DOMAIN @) \ {id})]

\* universe::remove_source of e131_receiver.hpp
pull_remove_source(u, id) ==
    LET u1 == tmrs_remove(u, id)
    IN  [u1 EXCEPT !.prio_cnt = remove(@, u.srcs[id].prio),
                   !.srcs = Restrict(@, (DOMAIN @) \ {id})]

\* universe::add_source of e131_receiver.hpp
pull_add_source(u, pkt, maxsrc, failing) ==
    IF Cardinality(DOMAIN u.srcs) = maxsrc
    THEN [u |-> u, r |-> "ADD_FAILURE_SOURCE_LIMIT"]
    ELSE IF failing = "add" THEN [u |-> u, r |-> "ADD_FAILURE_TIMER"]
    ELSE
        LET src == [uuid |-> pkt.cid, prio |-> pkt.priority,
                    sequence_data |-> pkt.seq_number,
                    sequence_synchronization |-> 0]
            u1 == tmrs_add(u, pkt.cid)
        IN  [u |-> [u1 EXCEPT !.prio_cnt = add(@, pkt.priority),
                              !.srcs = @ @@ (pkt.cid :> src)],
             r |-> "ADD_SUCCESS"]

\* the test after which update(pkt) returns no_event without a look at the
\* source: the validation has failed and the vector, the universe and the
\* preview option are as they should be
pull_rejected(pkt, ignore_preview) ==
    /\ ~pkt.validate_ok
    /\ pkt.vector = e131_data_vector
    /\ pkt.universe = uni
    /\ (~pkt.preview \/ ignore_preview)

\* the head of update(pkt): the oldest cid of pending_removal is popped, its
\* source removed and source_removed_event returned
pull_pending(u) ==
    LET uuid == Head(u.pending_removal)
    IN  [u |-> [pull_remove_source(u, uuid) EXCEPT
                  !.pending_removal = Tail(@)],
         ev |-> Event("SOURCE_REMOVED", uuid)]

\* the rest of update(pkt): what it makes of the packet
pull_packet(u, pkt, maxsrc, ignore_preview, failing) ==
    IF pull_rejected(pkt, ignore_preview)
    THEN [u |-> u, ev |-> no_event]
    ELSE
    LET uuid == pkt.cid
        known == uuid \in DOMAIN u.srcs
    IN
    IF known /\ e131_pkt_discard(pkt, u.srcs[uuid].sequence_data)
    THEN [u |-> u, ev |-> no_event]
    ELSE IF ~known /\ pkt.terminated THEN [u |-> u, ev |-> no_event]
    ELSE
    LET a == IF known THEN [u |-> u, r |-> "known"]
             ELSE pull_add_source(u, pkt, maxsrc, failing)
    IN
    IF a.r = "ADD_FAILURE_SOURCE_LIMIT"
    THEN [u |-> a.u, ev |-> Event("SOURCE_LIMIT_REACHED", uuid)]
    ELSE IF a.r = "ADD_FAILURE_TIMER"
    THEN [u |-> a.u, ev |-> Event("FATAL_ERROR", uuid)]
    ELSE IF failing = "modify"
    THEN [u |-> a.u, ev |-> Event("FATAL_ERROR", uuid)]
    ELSE IF pkt.terminated
    THEN [u |-> tmrs_modify(a.u, uuid, 0), ev |-> no_event]
    ELSE
    LET u1 == tmrs_modify(a.u, uuid, network_data_loss_timeout)
        u2 == IF update_rule(pkt, u1.prio_cnt)
              THEN [u1 EXCEPT !.channel_data = copy_payload(@, pkt)]
              ELSE u1
    IN  [u |-> [u2 EXCEPT !.srcs[uuid].sequence_data = pkt.seq_number],
         ev |-> IF a.r = "ADD_SUCCESS" THEN Event("SOURCE_ADDED", uuid)
                ELSE no_event]

\* an update(pkt) that looks at the packet first and at the queue of expiries
\* only when the packet gives no event
pull_update_packet_first(u, pkt, maxsrc, ignore_preview, failing) ==
    LET r == pull_packet(u, pkt, maxsrc, ignore_preview, failing)
    IN  IF r.ev # no_event \/ u.pending_removal = << >> THEN r
        ELSE pull_pending(u)

\* universe::update(pkt) of e131_receiver.hpp and the event it returns
pull_update(u, pkt, maxsrc, ignore_preview, failing) ==
    IF u.pending_removal # << >> THEN pull_pending(u)
    ELSE pull_packet(u, pkt, maxsrc, ignore_preview, failing)

\* universe::~universe: remove_source for every record of srcs
RECURSIVE pull_destroy(_)
pull_destroy(u) ==
    IF DOMAIN u.srcs = {} THEN u
    ELSE pull_destroy(pull_remove_source(u, CHOOSE c \in DOMAIN u.srcs :
                                               TRUE))

InitPull ==
    /\ minimum_priority = default_priority
    /\ max_sources \in 1..Cardinality(Cids)
    /\ ignore_preview_flag = FALSE
    /\ traffic = "pull"
    /\ prio_cnt = priority_default
    /\ srcs = << >>
    /\ evs_cid = << >>
    /\ timers = << >>
    /\ channel_data = [i \in 1..NumChannels |-> 0]
    /\ queued_events = << >>
    /\ ev_state = "running"
    /\ sock = << >>
    /\ pc = "idle"
    /\ returned = NoReturn
    /\ term_removed = {}
    /\ left = "none"
    /\ ret = default_priority
    /\ BesideInit

\* the members of the pull-style universe take the values of u
SetPull(u) ==
    /\ prio_cnt' = u.prio_cnt
    /\ srcs' = u.srcs
    /\ evs_cid' = u.evs_cid
    /\ timers' = u.timers
    /\ channel_data' = u.channel_data
    /\ pending_removal' = u.pending_removal

aside == <<queued_events, ev_state, sock, term_removed, left, ret,
           limit_reached_flag, journal, update_status>>

\* the caller hands pkt to update(pkt)
PullUpdate(pkt, failing) ==
    /\ pc = "idle"
    /\ LET r == pull_update(PU, pkt, max_sources, ignore_preview_flag,
                            failing)
       IN  /\ SetPull(r.u)
           /\ returned' = [status |-> "ok", events |-> <<r.ev>>]
    /\ UNCHANGED <<config, aside, pc>>

\* systemd_event_timer_callback: the one-shot source s is dispatched and
\* timer_expired queues its cid
PullTimerExpired(s) ==
    /\ pc = "idle"
    /\ s \in DOMAIN timers
    /\ timers[s] = 0
    /\ timers' = [timers EXCEPT ![s] = Off]
    /\ pending_removal' = Append(pending_removal, evs_cid[s])
    /\ UNCHANGED <<config, aside, pc, returned, prio_cnt, srcs, evs_cid,
                   channel_data>>

\* the clock advances by TickMs
PullTick ==
    /\ pc = "idle"
    /\ \E h \in DOMAIN timers : timers[h] > 0
    /\ timers' = [h \in DOMAIN timers |->
                    IF timers[h] > TickMs THEN timers[h] - TickMs
                    ELSE IF timers[h] = Off THEN Off ELSE 0]
    /\ UNCHANGED <<config, aside, pc, returned, prio_cnt, srcs, evs_cid,
                   channel_data, pending_removal>>

\* the universe is destroyed
PullDestroy ==
    /\ pc = "idle"
    /\ SetPull(pull_destroy(PU))
    /\ pc' = "destroyed"
    /\ UNCHANGED <<config, aside, returned>>

NextPull ==
    \/ \E pkt \in PullPackets, failing \in {"none", "add", "modify"} :
         PullUpdate(pkt, failing)
    \/ \E s \in Handles : PullTimerExpired(s)
    \/ PullTick
    \/ PullDestroy

SpecPull == InitPull /\ [][NextPull]_vars

----------------------------------------------------------------------------
(* The consumer: universe_handler of e131_blinkt.cpp, called for every      *)
(* batch of events update() returns.  journal is what it has written to the *)
(* journal, limit_reached_flag its static limit_reached, update_status the  *)
(* local that decides whether the status notification is sent.  The LED     *)
(* strip, which CHANNEL_DATA_UPDATED refreshes, is left out.                *)

MaxBatch == 2     \* events in one batch
MaxJournal == 3   \* entries written to the journal

\* the events a batch can hold
HandlerEvents ==
    { Event(t, "A") : t \in {"CHANNEL_DATA_UPDATED", "SOURCE_ADDED",
                             "SOURCE_REMOVED", "SOURCE_LIMIT_REACHED"} }

Batches == UNION { [1..n -> HandlerEvents] : n \in 0..MaxBatch }

\* a handler that logs every SOURCE_LIMIT_REACHED
handle_event_every_limit(h, e) ==
    CASE e.event \in {"SOURCE_ADDED", "SOURCE_REMOVED"} ->
            [h EXCEPT !.journal = Append(@, e), !.limit_reached = FALSE,
                      !.update_status = TRUE]
      [] e.event = "SOURCE_LIMIT_REACHED" ->
            [h EXCEPT !.journal = Append(@, e), !.limit_reached = TRUE]
      [] OTHER -> h

\* one case of the switch over event.event
handle_event(h, e) ==
    CASE e.event \in {"SOURCE_ADDED", "SOURCE_REMOVED"} ->
            [h EXCEPT !.journal = Append(@, e), !.limit_reached = FALSE,
                      !.update_status = TRUE]
      [] e.event = "SOURCE_LIMIT_REACHED" ->
            IF ~h.limit_reached
            THEN [h EXCEPT !.journal = Append(@, e), !.limit_reached = TRUE]
            ELSE h
      [] OTHER -> h

\* bool update_status { false }; for (const auto& event : events) ...
handle_events(events, flag, log) ==
    LET st[i \in 0..Len(events)] ==
            IF i = 0
            THEN [limit_reached |-> flag, journal |-> log,
                  update_status |-> FALSE]
            ELSE handle_event(st[i - 1], events[i])
    IN  st[Len(events)]

InitHandler ==
    /\ minimum_priority = default_priority
    /\ max_sources = 1
    /\ ignore_preview_flag = FALSE
    /\ traffic = "handler"
    /\ prio_cnt = priority_init(minimum_priority)
    /\ srcs = << >>
    /\ evs_cid = << >>
    /\ timers = << >>
    /\ channel_data = [i \in 1..NumChannels |-> 0]
    /\ queued_events = << >>
    /\ ev_state = "running"
    /\ sock = << >>
    /\ pc = "idle"
    /\ returned = NoReturn
    /\ term_removed = {}
    /\ left = "none"
    /\ ret = minimum_priority
    /\ BesideInit

\* universe_handler when uni.update() returns the batch events
UniverseHandler(events) ==
    /\ ev_state = "running"
    /\ LET h == handle_events(events, limit_reached_flag, journal)
       IN  /\ Len(h.journal) <= MaxJournal
           /\ limit_reached_flag' = h.limit_reached
           /\ journal' = h.journal
           /\ update_status' = h.update_status
    /\ returned' = [status |-> "ok", events |-> events]
    /\ UNCHANGED <<config, members, ev_state, sock, pc, left, ret,
                   pending_removal>>

\* universe_handler when the socket reports an error or uni.update() throws:
\* the exception is logged and sd_event_exit ends the loop
UniverseHandlerCatch ==
    /\ ev_state = "running"
    /\ Len(journal) < MaxJournal
    /\ journal' = Append(journal, Event("EXCEPTION", ""))
    /\ ev_state' = "exit_requested"
    /\ returned' = [status |-> "fault", events |-> << >>]
    /\ update_status' = FALSE
    /\ UNCHANGED <<config, members, sock, pc, left, ret, pending_removal,
                   limit_reached_flag>>

NextHandler ==
    \/ \E events \in Batches : UniverseHandler(events)
    \/ UniverseHandlerCatch

SpecHandler == InitHandler /\ [][NextHandler]_vars

----------------------------------------------------------------------------
(* Properties *)

Range(q) == { q[i] : i \in 1..Len(q) }
Count(q, e) == Cardinality({ i \in 1..Len(q) : q[i] = e })
CountType(q, t) == Cardinality({ i \in 1..Len(q) : q[i].event = t })

\* socket_callback can run
Handling == pc = "updating" /\ ev_state = "running"

\* what one pass of the handler's loop makes of packet p in the current
\* state when no reactor call fails
Iter(p, dangling) ==
    socket_iteration(U, p, max_sources, ignore_preview_flag, "none", dangling)

\* the events a pass has appended
NewEvents(u) ==
    SubSeq(u.queued_events, Len(queued_events) + 1, Len(u.queued_events))

Admissible(p) == valid_packet(p, ignore_preview_flag)
Known(p) == p.cid \in DOMAIN srcs
Stale(p) == Known(p) /\ e131_pkt_discard(p, srcs[p.cid].sequence_data)
TableFull == Cardinality(DOMAIN srcs) = max_sources

\* packets the universe processes up to the update of channel_data
Accepted(p) ==
    /\ Admissible(p)
    /\ ~Stale(p)
    /\ ~p.terminated
    /\ Known(p) \/ ~TableFull

TrackerCount(cnt, p) == IF p \in DOMAIN cnt THEN cnt[p] ELSE 0

UpdateRuleHolds(wins(_, _)) ==
    Handling =>
      \A p \in PacketsOf(traffic) :
        Accepted(p) =>
          LET r == Iter(p, 0)
              updates == CountType(NewEvents(r.u), "CHANNEL_DATA_UPDATED")
          IN  /\ r.st = "next"
              /\ IF wins(p, r.u.prio_cnt)
                 THEN /\ updates = 1
                      /\ Event("CHANNEL_DATA_UPDATED", p.cid)
                           \in Range(NewEvents(r.u))
                      /\ \A i \in 1..NumChannels :
                           r.u.channel_data[i] =
                             IF i < p.prop_val_cnt THEN p.fill
                             ELSE channel_data[i]
                 ELSE /\ updates = 0
                      /\ r.u.channel_data = channel_data

C1_WinsAsClaimed(p, cnt) ==
    p.start_code = 0 /\ p.priority >= Max(DOMAIN cnt)

C1_WinsAmended(p, cnt) ==
    p.prop_val_cnt # 0 /\ p.start_code = 0 /\ p.priority >= Max(DOMAIN cnt)

\* C1 as claimed: an admissible, fresh, non-terminating packet overwrites
\* channel_data with its payload and queues CHANNEL_DATA_UPDATED if and only
\* if its start code is 0 and its priority is at least the tracker's maximum
\* after the packet's own add or priority change; otherwise channel_data is
\* unchanged and no CHANNEL_DATA_UPDATED is queued.
C1_UpdateRuleAsClaimed == UpdateRuleHolds(C1_WinsAsClaimed)

\* C1 amended: the same, where the packet updates channel_data if and only
\* if its property value count is not 0, its start code is 0 and its priority
\* is at least the tracker's maximum after its own add or priority change.
C1_UpdateRule == UpdateRuleHolds(C1_WinsAmended)

\* a packet has just won: its event is queued and its payload is in the buffer
C1_Witness ==
    \E c \in DOMAIN srcs :
      /\ pc = "updating"
      /\ queued_events # << >>
      /\ queued_events[Len(queued_events)]
           = Event("CHANNEL_DATA_UPDATED", c)
      /\ srcs[c].prio >= current_max(prio_cnt)
      /\ \A i \in 1..NumChannels : channel_data[i] = MaxVal

C3_TerminationRemoves ==
    Handling =>
      \A p \in PacketsOf(traffic) : \A d \in DanglingReads(<<p>>) :
        (Admissible(p) /\ p.terminated /\ Known(p) /\ ~Stale(p)) =>
          LET r == Iter(p, d)
          IN  /\ p.cid \notin DOMAIN r.u.srcs
              /\ srcs[p.cid].timer_evs \notin DOMAIN r.u.timers
              /\ Count(NewEvents(r.u), Event("SOURCE_REMOVED", p.cid)) = 1
              /\ r.st # "throw"

\* C4: a source removed by a termination packet has no live eviction timer,
\* no second SOURCE_REMOVED is queued for it, and the update() call that
\* processed the termination gives the queued events to its caller.
C4_NoExpiryAfterTermination ==
    \A c \in term_removed :
      /\ \A h \in DOMAIN timers : h \in DOMAIN evs_cid => evs_cid[h] # c
      /\ Count(queued_events, Event("SOURCE_REMOVED", c))
           <= 1 + Count(queued_events, Event("SOURCE_ADDED", c))
      /\ (pc = "idle" /\ Event("SOURCE_REMOVED", c) \in Range(queued_events))
           => returned = [status |-> "ok", events |-> queued_events]

\* C5: the expiry of a source's timer removes the source and queues exactly
\* SOURCE_REMOVED for it, and once no source is left the tracker's maximum is
\* the baseline again.
C5_TimeoutRemoves ==
    /\ Handling =>
         \A s \in DOMAIN timers :
           elapsed(timers[s]) =>
             LET u2 == timer_callback(U, s)
             IN  /\ evs_cid[s] \notin DOMAIN u2.srcs
                 /\ NewEvents(u2) = <<Event("SOURCE_REMOVED", evs_cid[s])>>
    /\ (ev_state = "running" /\ DOMAIN srcs = {})
         => current_max(prio_cnt) = minimum_priority

\* C6: a non-terminating admissible packet of an unseen cid that meets a full
\* source table queues SOURCE_LIMIT_REACHED, changes nothing else, and the
\* handler goes on without a fault.
C6_LimitIsAnEvent ==
    Handling =>
      \A p \in PacketsOf(traffic) :
        (Admissible(p) /\ ~p.terminated /\ ~Known(p) /\ TableFull) =>
          LET r == Iter(p, 0)
          IN  /\ r.st # "throw"
              /\ Event("SOURCE_LIMIT_REACHED", p.cid)
                   \in Range(NewEvents(r.u))
              /\ r.u.srcs = srcs
              /\ r.u.prio_cnt = prio_cnt
              /\ r.u.channel_data = channel_data

\* C7: the source table never holds more than max_sources records.
C7_TableWithinLimit == Cardinality(DOMAIN srcs) <= max_sources

\* the table is full and the packet of a further source has been turned away
C7_Witness ==
    /\ max_sources = 1
    /\ Cardinality(DOMAIN srcs) = 1
    /\ ev_state = "exit_requested"
    /\ term_removed = {}
    /\ traffic = "limit"

\* C8: while the universe runs, the tracker's count at every priority, less
\* the sentinel's one at the baseline, is the number of records that store
\* this priority.
C8_CountsMatchRecords ==
    ev_state = "running" =>
      \A p \in Uint8Samples :
        TrackerCount(prio_cnt, p) - (IF p = minimum_priority THEN 1 ELSE 0)
          = Cardinality({ c \in DOMAIN srcs : srcs[c].prio = p })

\* C9: an accepted packet of a known source whose priority differs from the
\* stored one leaves the packet's priority in the record, one count less at
\* the old priority and one more at the new.
C9_PriorityChangeMoves ==
    Handling =>
      \A p \in PacketsOf(traffic) :
        (Accepted(p) /\ Known(p) /\ p.priority # srcs[p.cid].prio) =>
          LET r == Iter(p, 0)
              old == srcs[p.cid].prio
          IN  /\ r.u.srcs[p.cid].prio = p.priority
              /\ TrackerCount(r.u.prio_cnt, old)
                   = TrackerCount(prio_cnt, old) - 1
              /\ TrackerCount(r.u.prio_cnt, p.priority)
                   = TrackerCount(prio_cnt, p.priority) + 1

\* C10: after every add and remove, the value returned and current_max() are
\* the greatest priority with a count, or the baseline when none is counted.
C10_MaxIsGreatestCounted ==
    traffic = "none" =>
      ret = IF DOMAIN prio_cnt = {} THEN minimum_priority
            ELSE Max(DOMAIN prio_cnt)

\* C11: while the universe runs, the tracker is not empty and holds the
\* sentinel at the baseline, so its maximum is at least the baseline.
C11_SentinelStays ==
    ev_state = "running" =>
      /\ DOMAIN prio_cnt # {}
      /\ minimum_priority \in DOMAIN prio_cnt
      /\ current_max(prio_cnt) >= minimum_priority

\* C12: while the universe runs, priority::sources() is the number of
\* records whose stored priority is the tracker's maximum.
C12_ActiveSourceCount ==
    ev_state = "running" =>
      sources(prio_cnt, minimum_priority)
        = Cardinality({ c \in DOMAIN srcs :
                          srcs[c].prio = current_max(prio_cnt) })

\* C13: while the universe runs, priority::total_sources() is the number of
\* records in the source table.
C13_TotalSourceCount ==
    ev_state = "running" =>
      total_sources(prio_cnt) = Cardinality(DOMAIN srcs)

\* C14: the cids of the source table are the cids that own a live eviction
\* timer, one timer each, and every record holds the handle of its timer.
C14_RecordsAndTimers ==
    /\ DOMAIN srcs = { evs_cid[h] : h \in DOMAIN evs_cid }
    /\ DOMAIN evs_cid = DOMAIN timers
    /\ \A c \in DOMAIN srcs :
         /\ srcs[c].timer_evs \in DOMAIN timers
         /\ evs_cid[srcs[c].timer_evs] = c
    /\ Cardinality(DOMAIN evs_cid) = Cardinality(DOMAIN srcs)

IsPrefix(q, r) == Len(q) <= Len(r) /\ SubSeq(r, 1, Len(q)) = q

\* C15: update() empties the queue when it starts, the callbacks it
\* dispatches only append to the queue, and the sequence it returns is the
\* queue as these callbacks left it.
C15_EventsOfThisCall ==
    [][ /\ (pc = "idle" /\ pc' = "updating") => queued_events' = << >>
        /\ (pc = "updating" /\ pc' = "updating")
             => IsPrefix(queued_events, queued_events')
        /\ (pc = "updating" /\ pc' = "idle" /\ returned'.status = "ok")
             => /\ returned'.events = queued_events
                /\ queued_events' = queued_events ]_vars

\* a call returned the removal of a source that an earlier call had added
C15_Witness ==
    \E c \in Cids :
      /\ pc = "idle"
      /\ returned = [status |-> "ok",
                     events |-> <<Event("SOURCE_REMOVED", c)>>]
      /\ c \notin DOMAIN srcs
      /\ ev_state = "running"

\* C16: on a running universe the start of update() leaves channel_data, the
\* source table, the tracker and the timers alone and empties the queue, and
\* its return, taken when no datagram waits and no timer has expired, hands
\* out the queue and changes nothing; a call with nothing between the two
\* returns the empty sequence and changes nothing, however often repeated.
C16_QuietUpdate ==
    [][ /\ (pc = "idle" /\ pc' = "updating" /\ ev_state = "running")
             => /\ queued_events' = << >>
                /\ UNCHANGED <<channel_data, srcs, prio_cnt, timers, evs_cid,
                               ev_state, sock>>
        /\ (pc = "updating" /\ pc' = "idle" /\ ev_state = "running")
             => /\ sock = << >>
                /\ \A h \in DOMAIN timers : ~elapsed(timers[h])
                /\ returned' = [status |-> "ok", events |-> queued_events]
                /\ UNCHANGED <<channel_data, srcs, prio_cnt, timers, evs_cid,
                               ev_state, sock>> ]_vars

\* a call on a universe whose only source has expired returned no event and
\* left the expired source's data in the buffer
C16_Witness ==
    /\ traffic = "arbitration"
    /\ pc = "idle"
    /\ ev_state = "running"
    /\ returned = [status |-> "ok", events |-> << >>]
    /\ srcs = << >>
    /\ \A i \in 1..NumChannels : channel_data[i] = MaxVal

\* C17: the first packet of a new source in an empty universe, with start
\* code 0, a whole frame and a priority that wins, queues exactly
\* SOURCE_ADDED and then CHANNEL_DATA_UPDATED for its cid and fills
\* channel_data with its payload; and the events of two datagrams read in one
\* pass of the handler are those of the first followed by those of the second.
C17_EventsInOrder ==
    Handling =>
      /\ \A p \in PacketsOf(traffic) :
           (/\ srcs = << >>
            /\ max_sources >= 1
            /\ Admissible(p)
            /\ ~p.terminated
            /\ p.start_code = 0
            /\ p.prop_val_cnt = Whole
            /\ p.priority >= current_max(prio_cnt))
           => LET r == Iter(p, 0)
              IN  /\ r.st = "next"
                  /\ NewEvents(r.u) = <<Event("SOURCE_ADDED", p.cid),
                                        Event("CHANNEL_DATA_UPDATED", p.cid)>>
                  /\ \A i \in 1..NumChannels : r.u.channel_data[i] = p.fill
      /\ \A q \in Arrivals(traffic) :
           (Len(q) = 2 /\ Iter(q[1], 0).st = "next") =>
             LET r1 == Iter(q[1], 0)
                 r2 == socket_iteration(r1.u, q[2], max_sources,
                                        ignore_preview_flag, "none", 0)
                 both == socket_handler(U, q, max_sources,
                                        ignore_preview_flag, NoFail, 0)
             IN  /\ IsPrefix(r1.u.queued_events, r2.u.queued_events)
                 /\ both.u.queued_events = r2.u.queued_events

\* with max_sources = 1, the call that read A's first packet at priority 100
\* has returned the two events in this order, and the buffer holds A's payload
C17_Witness ==
    /\ max_sources = 1
    /\ pc = "idle"
    /\ returned = [status |-> "ok",
                   events |-> <<Event("SOURCE_ADDED", "A"),
                                Event("CHANNEL_DATA_UPDATED", "A")>>]
    /\ "A" \in DOMAIN srcs
    /\ srcs["A"].prio = 100
    /\ \A i \in 1..NumChannels : channel_data[i] = 1

\* C18: an admissible packet of a known source that e131_pkt_discard judges
\* not newer than the stored sequence number changes nothing and queues no
\* event, whatever its termination option and its priority.
C18_StaleChangesNothing ==
    Handling =>
      \A p \in PacketsOf(traffic) : \A d \in DanglingReads(<<p>>) :
        (/\ Admissible(p)
         /\ Known(p)
         /\ e131_pkt_discard(p, srcs[p.cid].sequence_data))
        => LET r == Iter(p, d)
           IN  /\ r.u = U
               /\ r.st = "break"

\* stale packets with the termination option and with another priority than
\* the stored one are among those the universe meets
C18_Cases ==
    \E p \in PacketsOf(traffic), t \in PacketsOf(traffic) :
      /\ Handling
      /\ Admissible(p) /\ Known(p) /\ Stale(p) /\ p.terminated
      /\ Admissible(t) /\ Known(t) /\ Stale(t)
      /\ t.priority # srcs[t.cid].prio

\* the handler has just discarded a stale packet of a source that is still
\* registered
C18_Witness ==
    /\ pc = "updating"
    /\ ev_state = "running"
    /\ left = "stale"
    /\ srcs # << >>
    /\ queued_events = << >>

\* C19: a packet whose sequence number is the stored one plus 1 modulo 256
\* is never judged stale; such a packet of a known source is accepted, its
\* sequence number is stored and the source's timer is set to the full
\* timeout again.
C19_NextSequenceAccepted ==
    Handling =>
      /\ \A s \in 0..255 :
           ~e131_pkt_discard([seq_number |-> (s + 1) % 256], s)
      /\ \A p \in PacketsOf(traffic) :
           (/\ Admissible(p)
            /\ Known(p)
            /\ ~p.terminated
            /\ p.seq_number = (srcs[p.cid].sequence_data + 1) % 256)
           => LET r == Iter(p, 0)
              IN  /\ r.st = "next"
                  /\ r.u.srcs[p.cid].sequence_data = p.seq_number
                  /\ r.u.timers[srcs[p.cid].timer_evs]
                       = network_data_loss_timeout

\* a source registered in an earlier call has had its packet with sequence
\* number 0 accepted, which on the way of successors comes after 255
C19_Witness ==
    /\ traffic = "sequence"
    /\ pc = "updating"
    /\ left = "drained"
    /\ queued_events = <<Event("CHANNEL_DATA_UPDATED", "A")>>
    /\ srcs["A"].sequence_data = 0
    /\ timers[srcs["A"].timer_evs] = network_data_loss_timeout

\* the four conditions of admission, read off the packet
MeetsAdmission(p) ==
    /\ p.validate_ok
    /\ p.vector = e131_data_vector
    /\ p.universe = uni
    /\ (~p.preview \/ ignore_preview_flag)

\* C20: a packet that fails envelope validation, carries another root vector
\* or another universe number, or has the preview option set while
\* ignore_preview_flag is false, changes nothing and queues no event; a packet
\* that meets the four conditions is not turned away by the admission test.
C20_OnlyAdmissiblePacketsAct ==
    Handling =>
      \A p \in PacketsOf(traffic) :
        LET r == Iter(p, 0)
        IN  /\ ~MeetsAdmission(p) => (r.u = U /\ r.st = "break")
            /\ (/\ MeetsAdmission(p)
                /\ ~p.terminated
                /\ ~Known(p)
                /\ ~TableFull)
               => /\ r.st = "next"
                  /\ p.cid \in DOMAIN r.u.srcs
                  /\ Event("SOURCE_ADDED", p.cid) \in Range(NewEvents(r.u))

\* the handler has just turned an inadmissible packet away from an empty
\* universe, which is still empty
C20_Witness ==
    /\ traffic = "admission"
    /\ pc = "updating"
    /\ ev_state = "running"
    /\ left = "invalid"
    /\ srcs = << >>
    /\ timers = << >>
    /\ prio_cnt = priority_init(minimum_priority)
    /\ queued_events = << >>
    /\ \A i \in 1..NumChannels : channel_data[i] = 0

\* C21: an admissible packet with the termination option from a component
\* that is not in the source table is dropped: no record, no tracker count, no
\* timer, no channel value and no event comes of it, whether the table is
\* full or has room.
C21_AbsentTerminationIgnored ==
    Handling =>
        \A p \in PacketsOf(traffic) : \A f \in {"none", "add_time", "set_time"} :
            (MeetsAdmission(p) /\ p.terminated /\ ~Known(p)) =>
                LET r == socket_iteration(U, p, max_sources,
                                          ignore_preview_flag, f, 0)
                IN  r.u = U /\ r.st = "break"

\* a termination from an unregistered component has just been dropped at a
\* full table, which is as it was
C21_Witness ==
    /\ left = "absent_terminated"
    /\ TableFull
    /\ max_sources > 0
    /\ queued_events = <<>>
    /\ ev_state = "running"

\* the same at a table with room
C21_WitnessRoom ==
    /\ left = "absent_terminated"
    /\ ~TableFull
    /\ queued_events = <<>>
    /\ ev_state = "running"

\* another source is registered at the priority of p, which is the greatest
Tied(p) ==
    /\ p.priority = current_max(prio_cnt)
    /\ \E c \in DOMAIN srcs \ {p.cid} : srcs[c].prio = p.priority

\* C22 as claimed: when sources tied at the greatest priority send packets
\* with start code 0, every accepted packet leaves the whole of channel_data
\* equal to its payload.
C22_LastWriteWinsAsClaimed ==
    Handling =>
        \A p \in PacketsOf(traffic) :
            (Accepted(p) /\ p.start_code = 0 /\ Tied(p)) =>
                Iter(p, 0).u.channel_data = [i \in 1..NumChannels |-> p.fill]

\* C22: when sources tied at the greatest priority send packets with start
\* code 0 that carry a value for every channel, every accepted packet leaves
\* the whole of channel_data equal to its payload: no channel keeps what
\* another source wrote before.
C22_LastWriteWins ==
    Handling =>
        \A p \in PacketsOf(traffic) :
            (Accepted(p) /\ p.start_code = 0 /\ Tied(p)
                /\ p.prop_val_cnt = Whole) =>
                Iter(p, 0).u.channel_data = [i \in 1..NumChannels |-> p.fill]

\* A and B are tied at the greatest priority, both have written, and the
\* buffer holds B's lower values in every channel
C22_Witness ==
    /\ traffic = "arbitration"
    /\ DOMAIN srcs = Cids
    /\ \A c \in Cids : srcs[c].prio = Max(Priorities)
    /\ queued_events = <<Event("CHANNEL_DATA_UPDATED", "B")>>
    /\ channel_data = [i \in 1..NumChannels |-> Level("B")]
    /\ Level("B") < Level("A")
    /\ ev_state = "running"

\* the handler's verdict on the single datagram p when the reactor call kind
\* fails
HandlerOk(p, kind) ==
    socket_handler(U, <<p>>, max_sources, ignore_preview_flag,
                   [at |-> 1, kind |-> kind], 0).ok

\* C23: when the eviction timer of a new source cannot be armed, or that of
\* a known source cannot be rescheduled, while a packet is processed, the
\* handler reports failure, the event loop is told to exit and update() does
\* not return normally: the caller gets a fault.
C23_TimerFailureIsAFault ==
    /\ Handling =>
          \A p \in PacketsOf(traffic) :
              /\ (Admissible(p) /\ ~Known(p) /\ ~p.terminated /\ ~TableFull)
                    => ~HandlerOk(p, "add_time")
              /\ Accepted(p) => ~HandlerOk(p, "set_time")
    /\ left = "throw" => ev_state # "running"
    /\ ev_state # "running" => returned.status # "ok"
    /\ (pc = "idle" /\ ev_state # "running") => returned.status = "fault"

\* update() has thrown after a timer call failed: no source was refused at
\* the limit and none was terminated
C23_Witness ==
    /\ traffic = "fault"
    /\ max_sources = Cardinality(Cids)
    /\ term_removed = {}
    /\ pc = "idle"
    /\ returned.status = "fault"
    /\ DOMAIN srcs # {}

\* the SOURCE_ADDED and SOURCE_REMOVED events of this call that name c
Membership(c) ==
    SelectSeq(queued_events,
              LAMBDA e : e.id = c
                         /\ e.event \in {"SOURCE_ADDED", "SOURCE_REMOVED"})

\* C24: for every cid the SOURCE_ADDED and SOURCE_REMOVED events alternate,
\* and each agrees with the source table: after SOURCE_ADDED the cid is in
\* the table, after SOURCE_REMOVED it is not, so that the next event for the
\* cid can only be the other one and a removed cid can be added again.
C24_AddedRemovedAlternate ==
    \A c \in Cids :
        LET m == Membership(c)
        IN  /\ \A i \in 1..(Len(m) - 1) : m[i].event # m[i + 1].event
            /\ m # <<>> =>
                  (m[Len(m)].event = "SOURCE_ADDED" <=> c \in DOMAIN srcs)

\* the same while no source has been removed by a termination
C24_WithoutTermination == term_removed = {} => C24_AddedRemovedAlternate

\* C25: update() returns normally only when no datagram is left in the
\* socket.  Every pass of the handler takes at least one datagram from the
\* front of those waiting and leaves the ones behind it in their order, also
\* when it stops at an inadmissible or stale one, so the passes of one call
\* consume the datagrams in arrival order and come to an end.
C25_AllDatagramsConsumed ==
    /\ (pc = "idle" /\ returned.status = "ok") => sock = <<>>
    /\ Handling =>
          \A q \in Arrivals(traffic) :
              LET w == sock \o q
                  r == socket_handler(U, w, max_sources, ignore_preview_flag,
                                      NoFail, 0)
              IN  (w # <<>> /\ Len(w) <= MaxQueue) =>
                      /\ Len(r.sock) < Len(w)
                      /\ r.sock = SubSeq(w, Len(w) - Len(r.sock) + 1, Len(w))
                      /\ r.why = "drained" => r.sock = <<>>

\* a pass has stopped at a datagram it does not act on, another datagram
\* waits behind it and update() has not returned
C25_Witness ==
    /\ Handling
    /\ left \in {"invalid", "stale", "absent_terminated"}
    /\ sock # <<>>

\* C26: a priority tracker as its constructor leaves it, with the sentinel at
\* the default E1.31 priority, reports 100 as the greatest priority and a
\* source count of zero.
C26_FreshTracker ==
    (minimum_priority = default_priority /\ prio_cnt = priority_default) =>
        /\ current_max(prio_cnt) = 100
        /\ sources(prio_cnt, minimum_priority) = 0

\* the tracker has just been constructed with the sentinel at 100
C26_Witness ==
    /\ traffic = "none"
    /\ minimum_priority = default_priority
    /\ prio_cnt = priority_default
    /\ ret = default_priority

\* the tracker cnt holds, at every priority, the records of table that store
\* it, and the sentinel
ExactCounts(cnt, table) ==
    \A x \in Uint8Samples :
        TrackerCount(cnt, x) =
            Cardinality({ c \in DOMAIN table : table[c].prio = x })
              + (IF x = minimum_priority THEN 1 ELSE 0)

\* a fresh termination packet of a registered source, met by a tracker that
\* agrees with the table
Terminating(p) ==
    /\ Admissible(p) /\ p.terminated /\ Known(p) /\ ~Stale(p)
    /\ ExactCounts(prio_cnt, srcs)

\* C27: after a termination packet has removed its source, whatever priority
\* the packet carries, the tracker holds the counts of the remaining sources
\* and the sentinel; when the source was the only one, the greatest priority
\* is the baseline and no source is counted.
C27_TerminationLeavesExactCounts ==
    Handling =>
      \A p \in PacketsOf(traffic) : \A d \in DanglingReads(<<p>>) :
        Terminating(p) =>
          LET cnt == Iter(p, d).u.prio_cnt
              rest == Restrict(srcs, DOMAIN srcs \ {p.cid})
          IN  /\ ExactCounts(cnt, rest)
              /\ DOMAIN rest = {} =>
                    /\ cnt # <<>>
                    /\ current_max(cnt) = minimum_priority
                    /\ total_sources(cnt) = 0

\* the same when the read through the erased record still gives the priority
\* that was stored
C27_StoredPriorityRead ==
    Handling =>
      \A p \in PacketsOf(traffic) :
        Terminating(p) =>
          ExactCounts(Iter(p, srcs[p.cid].prio).u.prio_cnt,
                      Restrict(srcs, DOMAIN srcs \ {p.cid}))

\* C28: a packet with the termination option, from a registered source or
\* not, fresh or stale, leaves channel_data as it was and queues no
\* CHANNEL_DATA_UPDATED, also when it has start code 0 and a priority at or
\* above the greatest.
C28_TerminationWritesNothing ==
    Handling =>
      \A p \in PacketsOf(traffic) : \A d \in DanglingReads(<<p>>) :
        \A f \in {"none", "add_time", "set_time"} :
          p.terminated =>
            LET r == socket_iteration(U, p, max_sources, ignore_preview_flag,
                                      f, d)
            IN  /\ r.u.channel_data = channel_data
                /\ CountType(NewEvents(r.u), "CHANNEL_DATA_UPDATED") = 0

\* A's termination packet, which carried start code 0, the greatest priority
\* and other values than the buffer holds, has removed A and written nothing
C28_Witness ==
    /\ traffic = "limit"
    /\ "A" \in term_removed
    /\ queued_events = <<Event("SOURCE_REMOVED", "A")>>
    /\ channel_data = [i \in 1..NumChannels |-> 1]
    /\ MaxVal # 1

\* every accepted packet leaves its source's timer a full
\* network_data_loss_timeout from its deadline
AcceptedRearms ==
    Handling =>
      \A p \in PacketsOf(traffic) :
        Accepted(p) =>
          LET r == Iter(p, 0)
          IN  /\ r.st = "next"
              /\ r.u.timers[r.u.srcs[p.cid].timer_evs]
                   = network_data_loss_timeout

\* the sources this step removes by timeout
TimedOut ==
    { c \in DOMAIN srcs : c \notin DOMAIN srcs' /\ c \notin term_removed' }

\* the time since the last accepted packet of the registered source c.  The
\* consumer calls update() when a deadline is reached: the clock stops at the
\* first deadline and update() returns with every timer ahead of its own, so
\* while the universe runs a timer that reads 0 has reached its deadline this
\* instant.
SinceAccepted(c) == network_data_loss_timeout - timers[srcs[c].timer_evs]

C30_SequenceOfLastAccepted ==
    Handling =>
      \A p \in PacketsOf(traffic) :
        LET r == Iter(p, 0)
        IN  /\ Accepted(p) =>
                  /\ r.st = "next"
                  /\ r.u.srcs[p.cid].sequence_data = p.seq_number
                  /\ \A c \in DOMAIN srcs \ {p.cid} :
                        r.u.srcs[c].sequence_data = srcs[c].sequence_data
            /\ (~Accepted(p) /\ ~p.terminated) =>
                  \A c \in DOMAIN srcs :
                    /\ c \in DOMAIN r.u.srcs
                    /\ r.u.srcs[c].sequence_data = srcs[c].sequence_data

\* B's packet at priority 50 and sequence number 50 was accepted below A's
\* 150 without reaching channel_data, and 50 is B's stored number
C30_Witness ==
    /\ traffic = "arbitration"
    /\ Handling
    /\ left = "drained"
    /\ queued_events = <<>>
    /\ DOMAIN srcs = Cids
    /\ current_max(prio_cnt) = 150
    /\ srcs["A"].sequence_data = 150
    /\ srcs["B"].sequence_data = 50
    /\ channel_data = [i \in 1..NumChannels |-> Level("A")]

\* C31: once the pull-style universe has been destroyed no source is left:
\* the source table is empty, the tracker holds the sentinel alone, and the
\* loop holds no timer of the universe, so that no expiry can be delivered.
C31_TeardownRemovesAll ==
    pc = "destroyed" =>
        /\ srcs = << >>
        /\ prio_cnt = priority_init(minimum_priority)
        /\ timers = << >>
        /\ evs_cid = << >>
        /\ \A s \in Handles : ~ENABLED PullTimerExpired(s)

\* the universe was destroyed after the call that added A, with an expiry
\* still queued
C31_Witness ==
    /\ pc = "destroyed"
    /\ returned.events = <<Event("SOURCE_ADDED", "A")>>
    /\ pending_removal # << >>

\* C32: when sd_event_add_time fails while a new source is added, the add
\* leaves nothing behind: the cid is not in the source table, the tracker has
\* no count more, the map of timer handles is as it was and no SOURCE_ADDED
\* is queued
C32_FailedAddLeavesNothing ==
    Handling =>
      \A p \in PacketsOf(traffic) :
        (Admissible(p) /\ ~Known(p) /\ ~p.terminated /\ ~TableFull) =>
          LET r == socket_iteration(U, p, max_sources, ignore_preview_flag,
                                    "add_time", 0)
          IN  /\ r.st = "throw"
              /\ p.cid \notin DOMAIN r.u.srcs
              /\ r.u.srcs = srcs
              /\ r.u.prio_cnt = prio_cnt
              /\ r.u.evs_cid = evs_cid
              /\ r.u.timers = timers
              /\ r.u.queued_events = queued_events

\* the same of the pull-style universe: update(pkt) returns FATAL_ERROR and
\* the members are as they were
C32_PullFailedAdd ==
    (pc = "idle" /\ pending_removal = << >>) =>
      \A p \in PullPackets :
        (~pull_rejected(p, ignore_preview_flag) /\ ~Known(p) /\ ~p.terminated
            /\ ~TableFull) =>
          LET r == pull_update(PU, p, max_sources, ignore_preview_flag, "add")
          IN  r.ev = Event("FATAL_ERROR", p.cid) /\ r.u = PU

\* the handler has left its loop by the exception of a first source's add:
\* the table is empty and the tracker holds the sentinel alone
C32_Witness ==
    /\ traffic = "fault"
    /\ left = "throw"
    /\ srcs = << >>
    /\ prio_cnt = priority_init(minimum_priority)
    /\ evs_cid = << >>
    /\ queued_events = << >>

\* the pass that handles the termination packet p of a registered source
\* writes nothing to channel_data and queues no CHANNEL_DATA_UPDATED
TerminationKeepsBuffer ==
    Handling =>
      \A p \in PacketsOf(traffic) : \A d \in DanglingReads(<<p>>) :
        (Admissible(p) /\ Known(p) /\ ~Stale(p) /\ p.terminated) =>
          LET r == Iter(p, d)
          IN  /\ p.cid \in r.u.term_removed
              /\ Event("SOURCE_REMOVED", p.cid) \in Range(NewEvents(r.u))
              /\ r.u.channel_data = channel_data
              /\ CountType(NewEvents(r.u), "CHANNEL_DATA_UPDATED") = 0

\* C33: the removal of a source, by timeout or by termination, leaves
\* channel_data as it was and queues no CHANNEL_DATA_UPDATED; the buffer
\* changes only in a step in which a packet passes the update rule, which
\* queues CHANNEL_DATA_UPDATED
C33_RemovalKeepsBuffer ==
    /\ []TerminationKeepsBuffer
    /\ [][/\ TimedOut # {} =>
               /\ channel_data' = channel_data
               /\ CountType(queued_events', "CHANNEL_DATA_UPDATED")
                    = CountType(queued_events, "CHANNEL_DATA_UPDATED")
          /\ channel_data' # channel_data =>
               CountType(queued_events', "CHANNEL_DATA_UPDATED")
                 > CountType(queued_events, "CHANNEL_DATA_UPDATED")]_vars

\* A, whose packets had filled the buffer, has timed out while B stays: the
\* buffer still holds A's level
C33_Witness ==
    /\ traffic = "arbitration"
    /\ DOMAIN srcs = {"B"}
    /\ term_removed = {}
    /\ queued_events = <<Event("SOURCE_REMOVED", "A")>>
    /\ channel_data = [i \in 1..NumChannels |-> Level("A")]
    /\ Level("A") # Level("B")

\* C34: a packet accepted at a priority strictly below the sentinel's
\* baseline never updates channel_data and never causes
\* CHANNEL_DATA_UPDATED, whatever other sources there are; its source is in
\* the source table after the pass and total_sources() counts it
C34_BelowBaselineNeverWins ==
    Handling =>
      \A p \in PacketsOf(traffic) :
        (Accepted(p) /\ p.priority < minimum_priority) =>
          LET r == Iter(p, 0)
          IN  /\ r.st = "next"
              /\ r.u.channel_data = channel_data
              /\ CountType(NewEvents(r.u), "CHANNEL_DATA_UPDATED") = 0
              /\ p.cid \in DOMAIN r.u.srcs
              /\ total_sources(r.u.prio_cnt) = Cardinality(DOMAIN r.u.srcs)

\* C35: an accepted packet that passes the update rule with property value
\* count n >= 1 overwrites channels 0..n-2 (the first n-1 entries of
\* channel_data) and leaves the others as they were; an accepted packet with
\* count 0 leaves channel_data alone and queues no CHANNEL_DATA_UPDATED, yet
\* its source is registered and its timer is a full timeout from its deadline
C35_CopyIsAPrefix ==
    Handling =>
      \A p \in PacketsOf(traffic) :
        Accepted(p) =>
          LET r == Iter(p, 0)
              n == p.prop_val_cnt
          IN  /\ (n >= 1 /\ update_rule(p, r.u.prio_cnt)) =>
                   /\ \A i \in 1..NumChannels :
                        /\ i <= n - 1 => r.u.channel_data[i] = p.fill
                        /\ i > n - 1 => r.u.channel_data[i] = channel_data[i]
                   /\ Event("CHANNEL_DATA_UPDATED", p.cid)
                        \in Range(NewEvents(r.u))
              /\ n = 0 =>
                   /\ r.st = "next"
                   /\ r.u.channel_data = channel_data
                   /\ CountType(NewEvents(r.u), "CHANNEL_DATA_UPDATED") = 0
                   /\ p.cid \in DOMAIN r.u.srcs
                   /\ r.u.timers[r.u.srcs[p.cid].timer_evs]
                        = network_data_loss_timeout

\* a frame with one channel value has won after a whole frame: channel 0
\* holds the short frame's value, the other channels the whole frame's
C35_Witness ==
    /\ traffic = "payload"
    /\ DOMAIN srcs = {"A"}
    /\ queued_events = <<Event("CHANNEL_DATA_UPDATED", "A")>>
    /\ channel_data[1] = MaxVal
    /\ \A i \in 2..NumChannels : channel_data[i] = 1
    /\ NumChannels >= 2 /\ MaxVal # 1

\* C36: after any sequence of add and remove calls every entry of the
\* tracker's map has a count of at least 1; a remove that takes a count to
\* zero erases the entry, and a remove of a priority without an entry leaves
\* the map as it was
C36_CountsAtLeastOne ==
    traffic = "none" =>
      /\ \A p \in DOMAIN prio_cnt : prio_cnt[p] >= 1
      /\ \A p \in TrackerPriorities :
           LET after == remove(prio_cnt, p)
           IN  /\ TrackerCount(prio_cnt, p) <= 1 => p \notin DOMAIN after
               /\ p \notin DOMAIN prio_cnt => after = prio_cnt
               /\ \A q \in DOMAIN after : after[q] >= 1

\* adds and removes have erased the sentinel's entry and left another
\* priority counted more than once
C36_Witness ==
    /\ traffic = "none"
    /\ minimum_priority \notin DOMAIN prio_cnt
    /\ \E p \in DOMAIN prio_cnt : prio_cnt[p] > 1

\* the results of k successive calls update(pkt) with the same packet, as
\* the caller's do-while loop makes them
pull_calls(u, pkt, k) ==
    LET st[i \in 0..k] ==
            IF i = 0 THEN [u |-> u, ev |-> no_event]
            ELSE pull_update(st[i - 1].u, pkt, max_sources,
                             ignore_preview_flag, "none")
    IN  [i \in 1..k |-> st[i]]

\* the caller's loop over update(pkt) sees the queued removals, oldest
\* first, before anything the packet does; none of these calls looks at pkt
RemovalsBeforePacket ==
    pc = "idle" =>
      \A pkt \in PullPackets :
        LET n == Len(pending_removal)
            rs == pull_calls(PU, pkt, n + 1)
        IN  /\ \A i \in 1..n :
                 LET gone == { pending_removal[j] : j \in 1..i }
                 IN  /\ rs[i].ev = Event("SOURCE_REMOVED", pending_removal[i])
                     /\ rs[i].u.pending_removal
                          = SubSeq(pending_removal, i + 1, n)
                     /\ DOMAIN rs[i].u.srcs = (DOMAIN srcs) \ gone
                     /\ \A c \in DOMAIN rs[i].u.srcs :
                          rs[i].u.srcs[c] = srcs[c]
                     /\ rs[i].u.channel_data = channel_data
                     /\ \A other \in PullPackets :
                        \A f \in {"none", "add", "modify"} :
                          pull_update(IF i = 1 THEN PU ELSE rs[i - 1].u,
                                      other, max_sources,
                                      ignore_preview_flag, f) = rs[i]
            /\ rs[n + 1] =
                 pull_packet(IF n = 0 THEN PU ELSE rs[n].u, pkt, max_sources,
                             ignore_preview_flag, "none")

\* C37: in the pull-style universe expiries are queued in the order in which
\* they arrive; a call update(pkt) with a non-empty queue removes the oldest
\* queued source alone, returns SOURCE_REMOVED for it and does not look at
\* pkt; the packet is processed only by a call that finds the queue empty,
\* so the caller's loop sees all queued removals before any effect of the
\* packet
C37_RemovalsFirst ==
    /\ []RemovalsBeforePacket
    /\ [][/\ Len(pending_removal') > Len(pending_removal) =>
               /\ Len(pending_removal') = Len(pending_removal) + 1
               /\ SubSeq(pending_removal', 1, Len(pending_removal))
                    = pending_removal
          /\ (pending_removal # << >> /\ pc' = "idle"
                /\ returned' # returned) =>
               /\ returned'.events
                    = <<Event("SOURCE_REMOVED", Head(pending_removal))>>
               /\ pending_removal' = Tail(pending_removal)
               /\ channel_data' = channel_data]_vars

\* B's expiry was queued before A's; the call just made has removed B and
\* left A, which is still queued
C37_Witness ==
    /\ traffic = "pull"
    /\ pc = "idle"
    /\ returned.events = <<Event("SOURCE_REMOVED", "B")>>
    /\ pending_removal = <<"A">>
    /\ DOMAIN srcs = {"A"}

\* C38: the handler writes the source-limit message at most once between two
\* SOURCE_ADDED or SOURCE_REMOVED events, within a batch and across batches:
\* the journal never holds two limit messages in a row, a limit message is
\* the last thing logged exactly while limit_reached is set, and the status
\* notification is sent only after a batch with a SOURCE_ADDED or a
\* SOURCE_REMOVED
C38_LimitLoggedOnce ==
    traffic = "handler" =>
      /\ \A i \in 1..(Len(journal) - 1) :
           ~(/\ journal[i].event = "SOURCE_LIMIT_REACHED"
             /\ journal[i + 1].event = "SOURCE_LIMIT_REACHED")
      /\ ev_state = "running" =>
           (limit_reached_flag <=>
              /\ journal # << >>
              /\ journal[Len(journal)].event = "SOURCE_LIMIT_REACHED")
      /\ update_status =>
           \E i \in 1..Len(returned.events) :
              returned.events[i].event \in {"SOURCE_ADDED", "SOURCE_REMOVED"}

\* a batch with two SOURCE_LIMIT_REACHED events has been handled since A was
\* added: the journal holds one limit message and nothing was notified
C38_Witness ==
    /\ traffic = "handler"
    /\ returned.events = <<Event("SOURCE_LIMIT_REACHED", "A"),
                           Event("SOURCE_LIMIT_REACHED", "A")>>
    /\ journal = <<Event("SOURCE_ADDED", "A"),
                   Event("SOURCE_LIMIT_REACHED", "A")>>
    /\ limit_reached_flag
    /\ ~update_status

TypeOK ==
    /\ DOMAIN prio_cnt # {}
    /\ DOMAIN evs_cid = DOMAIN timers

====
